---- MODULE Spec2Model ----
(***************************************************************************)
(* State-machine model of wormhole/_dilation/subchannel.py: the SubChannel *)
(* automaton, its write/close wrappers and consumer binding, and the three *)
(* endpoints (ControlEndpoint, SubchannelConnectorEndpoint,                *)
(* SubchannelListenerEndpoint) gated on a one-shot readiness observer.     *)
(***************************************************************************)
EXTENDS Integers, Sequences, FiniteSets, TLC

VARIABLES
    sc,             \* scid -> SubChannel fields (state, _protocol, _pending_*)
    mgr,            \* calls received by the manager, in order
    protos,         \* protocol instances built so far: factory, addr, transport, event log
    dispatched,     \* scid -> remote_data payloads the automaton accepted, in order
    last,           \* the most recent call: what, on which scid, from which state, outcome
    once,           \* endpoint -> Once._called
    wait,           \* endpoint -> OneShotObserver: result and waiting observers
    eq,             \* eventual queue: continuations scheduled to run, FIFO
    calls,          \* connect()/listen() invocations: endpoint, factory, status, result
    factory,        \* SubchannelListenerEndpoint._factory
    pending_opens,  \* SubchannelListenerEndpoint._pending_opens
    next_scid       \* the manager's next locally allocated subchannel id

vars == <<sc, mgr, protos, dispatched, last, once, wait, eq, calls, factory,
          pending_opens, next_scid>>

epvars == <<once, wait, eq, calls, factory, pending_opens, next_scid>>

(***************************************************************************)
(* Bounds of the exploration.                                              *)
(***************************************************************************)
MaxData == 3
MaxWrites == 2
MaxProtos == 2

(***************************************************************************)
(* Python values.                                                          *)
(***************************************************************************)
None == -1

\* Python integers are unbounded; lengths near 2**32 are kept as three
\* base-2^16 limbs <<hi, mid, lo>>, most significant first.
Base == 2^16

Big(n) == <<0, 0, n>>

BigPow32 == <<1, 0, 0>>

BigSub(x, n) ==
    IF x[3] >= n THEN <<x[1], x[2], x[3] - n>>
    ELSE IF x[2] > 0 THEN <<x[1], x[2] - 1, x[3] + Base - n>>
    ELSE <<x[1] - 1, Base - 1, x[3] + Base - n>>

BigAdd(x, n) ==
    IF x[3] + n < Base THEN <<x[1], x[2], x[3] + n>>
    ELSE IF x[2] + 1 < Base THEN <<x[1], x[2] + 1, x[3] + n - Base>>
    ELSE <<x[1] + 1, 0, x[3] + n - Base>>

BigLeqOffByOne(x, y) ==
    \/ x[1] < y[1]
    \/ x[1] = y[1] /\ x[2] < y[2]
    \/ x[1] = y[1] /\ x[2] = y[2] /\ x[3] <= y[3] + 1

BigLeq(x, y) ==
    \/ x[1] < y[1]
    \/ x[1] = y[1] /\ x[2] < y[2]
    \/ x[1] = y[1] /\ x[2] = y[2] /\ x[3] <= y[3]

MAX_FRAME_LENGTH == BigSub(BigSub(BigSub(BigPow32, 1), 9), 16)

(***************************************************************************)
(* Payloads: a content tag, the Python type, and len(data).                *)
(***************************************************************************)
Payload(t, k, n) == [tag |-> t, kind |-> k, len |-> n]

NoData == Payload("", "bytes", Big(0))

RemotePayloads == {Payload("AB", "bytes", Big(2)), Payload("CD", "bytes", Big(2))}

WritePayloads ==
    { Payload("w", "bytes", Big(1)),
      Payload("w", "bytes", BigSub(BigPow32, 26)),
      Payload("w", "bytes", BigSub(BigPow32, 25)),
      Payload("w", "str", Big(1)) }

(***************************************************************************)
(* The world the SubChannel code acts on: the subchannels, the manager's   *)
(* call log, the protocol instances, the exception in flight (if any),     *)
(* the automaton input the call reached (if any) and the effects of the    *)
(* call so far, in the order the code performs them.                       *)
(***************************************************************************)
World ==
    [sc |-> sc, mgr |-> mgr, protos |-> protos, err |-> "none", input |-> "none",
     trace |-> <<>>]

Raise(w, e) == [w EXCEPT !.err = e]

\* one effect of the running call, in program order
Effect(w, x) == [w EXCEPT !.trace = Append(@, x)]

MgrCall(w, c, i, d) ==
    Effect([w EXCEPT !.mgr = Append(@, [call |-> c, scid |-> i, data |-> d])], c)

Event(e, d, r) == [ev |-> e, data |-> d, reason |-> r]

Deliver(w, p, e) == Effect([w EXCEPT !.protos[p].log = Append(@, e)], e.ev)

\* SubChannel.__attrs_post_init__: the automaton starts in its initial state.
NewSubChannel ==
    [state |-> "open", protocol |-> None,
     pending_dataReceived |-> <<>>,
     pending_connectionLost |-> <<FALSE, "None">>]

(***************************************************************************)
(* Outputs of the automaton.                                               *)
(***************************************************************************)
send_data(w, i, data) == MgrCall(w, "send_data", i, data)

send_close(w, i, data) == MgrCall(w, "send_close", i, NoData)

signal_dataReceived_prepend(w, i, data) ==
    IF w.sc[i].protocol # None
    THEN Deliver(w, w.sc[i].protocol, Event("dataReceived", data, ""))
    ELSE Effect([w EXCEPT !.sc[i].pending_dataReceived = <<data>> \o @],
                "pending_dataReceived")

signal_dataReceived(w, i, data) ==
    IF w.sc[i].protocol # None
    THEN Deliver(w, w.sc[i].protocol, Event("dataReceived", data, ""))
    ELSE Effect([w EXCEPT !.sc[i].pending_dataReceived = Append(@, data)],
                "pending_dataReceived")

signal_connectionLost_only_if_bound(w, i, data) ==
    IF w.sc[i].protocol # None
    THEN MgrCall(Deliver(w, w.sc[i].protocol,
                         Event("connectionLost", NoData, "ConnectionDone")),
                 "subchannel_closed", i, NoData)
    ELSE Effect([w EXCEPT !.sc[i].pending_connectionLost =
                              <<TRUE, "ConnectionDone">>],
                "pending_connectionLost")

signal_connectionLost(w, i, data) ==
    LET w1 == IF w.sc[i].protocol # None
              THEN Deliver(w, w.sc[i].protocol,
                           Event("connectionLost", NoData, "ConnectionDone"))
              ELSE Effect([w EXCEPT !.sc[i].pending_connectionLost =
                                        <<TRUE, "ConnectionDone">>],
                          "pending_connectionLost")
    IN  MgrCall(w1, "subchannel_closed", i, NoData)

error_closed_write(w, i, data) == Raise(w, "AlreadyClosedError")

error_closed_close(w, i, data) == Raise(w, "AlreadyClosedError")

Output(name, w, i, data) ==
    CASE name = "send_data" -> send_data(w, i, data)
      [] name = "send_close" -> send_close(w, i, data)
      [] name = "signal_dataReceived" -> signal_dataReceived(w, i, data)
      [] name = "signal_connectionLost" -> signal_connectionLost(w, i, data)
      [] name = "error_closed_write" -> error_closed_write(w, i, data)
      [] name = "error_closed_close" -> error_closed_close(w, i, data)

(***************************************************************************)
(* The transition table.  A (state, input) pair without an entry has no    *)
(* transition: the automaton raises NoTransition and does nothing else.    *)
(***************************************************************************)
To(s, outs) == [enter |-> s, outputs |-> outs]

NoTransition == To("NoTransition", <<>>)

TransitionsWriteWhileClosing(state, input) ==
    CASE state = "open" /\ input = "remote_data" -> To("open", <<"signal_dataReceived">>)
      [] state = "open" /\ input = "local_data" -> To("open", <<"send_data">>)
      [] state = "open" /\ input = "remote_close" ->
            To("closed", <<"send_close", "signal_connectionLost">>)
      [] state = "open" /\ input = "local_close" -> To("closing", <<"send_close">>)
      [] state = "closing" /\ input = "remote_data" ->
            To("closing", <<"signal_dataReceived">>)
      [] state = "closing" /\ input = "remote_close" ->
            To("closed", <<"signal_connectionLost">>)
      [] state = "closing" /\ input = "local_data" -> To("closing", <<"send_data">>)
      [] state = "closing" /\ input = "local_close" -> To("closing", <<"send_close">>)
      [] OTHER -> NoTransition

TransitionsClosedAccepts(state, input) ==
    CASE state = "open" /\ input = "remote_data" -> To("open", <<"signal_dataReceived">>)
      [] state = "open" /\ input = "local_data" -> To("open", <<"send_data">>)
      [] state = "open" /\ input = "remote_close" ->
            To("closed", <<"send_close", "signal_connectionLost">>)
      [] state = "open" /\ input = "local_close" -> To("closing", <<"send_close">>)
      [] state = "closing" /\ input = "remote_data" ->
            To("closing", <<"signal_dataReceived">>)
      [] state = "closing" /\ input = "remote_close" ->
            To("closed", <<"signal_connectionLost">>)
      [] state = "closing" /\ input = "local_data" ->
            To("closing", <<"error_closed_write">>)
      [] state = "closing" /\ input = "local_close" ->
            To("closing", <<"error_closed_close">>)
      [] state = "closed" /\ input = "remote_data" ->
            To("closed", <<"signal_dataReceived">>)
      [] state = "closed" /\ input = "remote_close" ->
            To("closed", <<"signal_connectionLost">>)
      [] OTHER -> NoTransition

TransitionsLostBeforeClose(state, input) ==
    CASE state = "open" /\ input = "remote_data" -> To("open", <<"signal_dataReceived">>)
      [] state = "open" /\ input = "local_data" -> To("open", <<"send_data">>)
      [] state = "open" /\ input = "remote_close" ->
            To("closed", <<"signal_connectionLost", "send_close">>)
      [] state = "open" /\ input = "local_close" -> To("closing", <<"send_close">>)
      [] state = "closing" /\ input = "remote_data" ->
            To("closing", <<"signal_dataReceived">>)
      [] state = "closing" /\ input = "remote_close" ->
            To("closed", <<"signal_connectionLost">>)
      [] state = "closing" /\ input = "local_data" ->
            To("closing", <<"error_closed_write">>)
      [] state = "closing" /\ input = "local_close" ->
            To("closing", <<"error_closed_close">>)
      [] OTHER -> NoTransition

TransitionsLocalCloseSignals(state, input) ==
    CASE state = "open" /\ input = "remote_data" -> To("open", <<"signal_dataReceived">>)
      [] state = "open" /\ input = "local_data" -> To("open", <<"send_data">>)
      [] state = "open" /\ input = "remote_close" ->
            To("closed", <<"send_close", "signal_connectionLost">>)
      [] state = "open" /\ input = "local_close" ->
            To("closing", <<"send_close", "signal_connectionLost">>)
      [] state = "closing" /\ input = "remote_data" ->
            To("closing", <<"signal_dataReceived">>)
      [] state = "closing" /\ input = "remote_close" ->
            To("closed", <<"signal_connectionLost">>)
      [] state = "closing" /\ input = "local_data" ->
            To("closing", <<"error_closed_write">>)
      [] state = "closing" /\ input = "local_close" ->
            To("closing", <<"error_closed_close">>)
      [] OTHER -> NoTransition

TransitionsCloseTwice(state, input) ==
    CASE state = "open" /\ input = "remote_data" -> To("open", <<"signal_dataReceived">>)
      [] state = "open" /\ input = "local_data" -> To("open", <<"send_data">>)
      [] state = "open" /\ input = "remote_close" ->
            To("closed", <<"send_close", "signal_connectionLost">>)
      [] state = "open" /\ input = "local_close" -> To("closing", <<"send_close">>)
      [] state = "closing" /\ input = "remote_data" ->
            To("closing", <<"signal_dataReceived">>)
      [] state = "closing" /\ input = "remote_close" ->
            To("closed", <<"send_close", "signal_connectionLost">>)
      [] state = "closing" /\ input = "local_data" ->
            To("closing", <<"error_closed_write">>)
      [] state = "closing" /\ input = "local_close" ->
            To("closing", <<"error_closed_close">>)
      [] OTHER -> NoTransition

TransitionsReopen(state, input) ==
    CASE state = "open" /\ input = "remote_data" -> To("open", <<"signal_dataReceived">>)
      [] state = "open" /\ input = "local_data" -> To("open", <<"send_data">>)
      [] state = "open" /\ input = "remote_close" ->
            To("closed", <<"send_close", "signal_connectionLost">>)
      [] state = "open" /\ input = "local_close" -> To("closing", <<"send_close">>)
      [] state = "closing" /\ input = "remote_data" ->
            To("open", <<"signal_dataReceived">>)
      [] state = "closing" /\ input = "remote_close" ->
            To("closed", <<"signal_connectionLost">>)
      [] state = "closing" /\ input = "local_data" ->
            To("closing", <<"error_closed_write">>)
      [] state = "closing" /\ input = "local_close" ->
            To("closing", <<"error_closed_close">>)
      [] OTHER -> NoTransition

Transitions(state, input) ==
    CASE state = "open" /\ input = "remote_data" -> To("open", <<"signal_dataReceived">>)
      [] state = "open" /\ input = "local_data" -> To("open", <<"send_data">>)
      [] state = "open" /\ input = "remote_close" ->
            To("closed", <<"send_close", "signal_connectionLost">>)
      [] state = "open" /\ input = "local_close" -> To("closing", <<"send_close">>)
      [] state = "closing" /\ input = "remote_data" ->
            To("closing", <<"signal_dataReceived">>)
      [] state = "closing" /\ input = "remote_close" ->
            To("closed", <<"signal_connectionLost">>)
      [] state = "closing" /\ input = "local_data" ->
            To("closing", <<"error_closed_write">>)
      [] state = "closing" /\ input = "local_close" ->
            To("closing", <<"error_closed_close">>)
      [] OTHER -> NoTransition

\* The outputs of a transition run in order; an exception ends the run.
RECURSIVE RunOutputs(_, _, _, _)
RunOutputs(w, i, outs, data) ==
    IF outs = <<>> \/ w.err # "none" THEN w
    ELSE RunOutputs(Output(Head(outs), w, i, data), i, Tail(outs), data)

\* An input: the new state is entered, then the outputs run.
Input(w, i, input, data) ==
    LET t == Transitions(w.sc[i].state, input)
        w1 == [w EXCEPT !.input = input]
    IN  IF t = NoTransition THEN Raise(w1, "NoTransition")
        ELSE RunOutputs([w1 EXCEPT !.sc[i].state = t.enter], i, t.outputs, data)

remote_data(w, i, data) == Input(w, i, "remote_data", data)

remote_close(w, i) == Input(w, i, "remote_close", NoData)

local_data(w, i, data) == Input(w, i, "local_data", data)

local_close(w, i) == Input(w, i, "local_close", NoData)

(***************************************************************************)
(* SubChannel methods.                                                     *)
(***************************************************************************)
RECURSIVE DeliverAll(_, _, _)
DeliverAll(w, p, datas) ==
    IF datas = <<>> THEN w
    ELSE DeliverAll(Deliver(w, p, Event("dataReceived", Head(datas), "")),
                    p, Tail(datas))

_set_protocol_rebinds(w, i, p) ==
    LET w1 == [w EXCEPT !.sc[i].protocol = p]
        w2 == IF w1.sc[i].pending_dataReceived # <<>>
              THEN [DeliverAll(w1, p, w1.sc[i].pending_dataReceived)
                       EXCEPT !.sc[i].pending_dataReceived = <<>>]
              ELSE w1
        cl == w2.sc[i].pending_connectionLost
    IN  IF cl[1]
        THEN Deliver(w2, p, Event("connectionLost", NoData, cl[2]))
        ELSE w2

_set_protocol_close_first(w, i, p) ==
    IF w.sc[i].protocol # None THEN Raise(w, "AssertionError")
    ELSE LET w1 == [w EXCEPT !.sc[i].protocol = p]
             cl == w1.sc[i].pending_connectionLost
             w2 == IF cl[1]
                   THEN Deliver(w1, p, Event("connectionLost", NoData, cl[2]))
                   ELSE w1
         IN  IF w2.sc[i].pending_dataReceived # <<>>
             THEN [DeliverAll(w2, p, w2.sc[i].pending_dataReceived)
                      EXCEPT !.sc[i].pending_dataReceived = <<>>]
             ELSE w2

_set_protocol(w, i, p) ==
    IF w.sc[i].protocol # None THEN Raise(w, "AssertionError")
    ELSE LET w1 == [w EXCEPT !.sc[i].protocol = p]
             w2 == IF w1.sc[i].pending_dataReceived # <<>>
                   THEN [DeliverAll(w1, p, w1.sc[i].pending_dataReceived)
                            EXCEPT !.sc[i].pending_dataReceived = <<>>]
                   ELSE w1
             cl == w2.sc[i].pending_connectionLost
         IN  IF cl[1]
             THEN Deliver(w2, p, Event("connectionLost", NoData, cl[2]))
             ELSE w2

write(w, i, data) ==
    IF data.kind # "bytes" THEN Raise(w, "AssertionError")
    ELSE IF ~BigLeq(data.len, MAX_FRAME_LENGTH) THEN Raise(w, "AssertionError")
    ELSE local_data(w, i, data)

loseConnection(w, i) == local_close(w, i)

\* IProducer / IConsumer: every call is handed to the manager, with the
\* subchannel itself as first argument.
stopProducing_closes(w, i) ==
    local_close(MgrCall(w, "subchannel_stopProducing", i, NoData), i)

stopProducing(w, i) == MgrCall(w, "subchannel_stopProducing", i, NoData)

pauseProducing(w, i) == MgrCall(w, "subchannel_pauseProducing", i, NoData)

resumeProducing(w, i) == MgrCall(w, "subchannel_resumeProducing", i, NoData)

ProducerArgs(producer, streaming) == [producer |-> producer, streaming |-> streaming]

registerProducer(w, i, producer, streaming) ==
    MgrCall(w, "subchannel_registerProducer", i, ProducerArgs(producer, streaming))

unregisterProducer(w, i) == MgrCall(w, "subchannel_unregisterProducer", i, NoData)

(***************************************************************************)
(* Application protocols and factories.                                    *)
(***************************************************************************)
\* protocolFactory.buildProtocol(addr): a new protocol instance; its id is
\* its position in protos.
buildProtocol(w, f, addr) ==
    [w EXCEPT !.protos = Append(@, [factory |-> f, addr |-> addr,
                                    transport |-> None, log |-> <<>>])]

NewProto(w) == Len(w.protos) + 1

\* p.makeConnection(t): sets p.transport and calls p.connectionMade().
makeConnection(w, p, t) ==
    Deliver([w EXCEPT !.protos[p].transport = t], p,
            Event("connectionMade", NoData, ""))

(***************************************************************************)
(* Bookkeeping shared by the actions.                                      *)
(***************************************************************************)
Call(c, inp, i, data, from, e) ==
    [call |-> c, input |-> inp, scid |-> i, data |-> data, from |-> from, err |-> e,
     trace |-> <<>>]

\* the record of a call together with the effects it had, in order
Traced(call, w) == [call EXCEPT !.trace = w.trace]

Commit(w) == sc' = w.sc /\ mgr' = w.mgr /\ protos' = w.protos

SendDatas(i) == SelectSeq(mgr, LAMBDA c : c.call = "send_data" /\ c.scid = i)

(***************************************************************************)
(* Actions on one subchannel.                                              *)
(***************************************************************************)
\* the manager dispatches inbound DATA to subchannel i
RemoteData(i, d) ==
    LET w == remote_data(World, i, d) IN
    /\ Commit(w)
    /\ dispatched' = IF w.err = "none" THEN [dispatched EXCEPT ![i] = Append(@, d)]
                     ELSE dispatched
    /\ last' = Traced(Call("remote_data", w.input, i, d, sc[i].state, w.err), w)
    /\ UNCHANGED epvars

\* the manager dispatches inbound CLOSE to subchannel i
RemoteClose(i) ==
    LET w == remote_close(World, i) IN
    /\ Commit(w)
    /\ last' = Traced(Call("remote_close", w.input, i, NoData, sc[i].state, w.err), w)
    /\ UNCHANGED <<dispatched, epvars>>

\* the application calls transport.write(data)
Write(i, d) ==
    LET w == write(World, i, d) IN
    /\ Commit(w)
    /\ last' = Traced(Call("write", w.input, i, d, sc[i].state, w.err), w)
    /\ UNCHANGED <<dispatched, epvars>>

\* the application calls transport.loseConnection()
LoseConnection(i) ==
    LET w == loseConnection(World, i) IN
    /\ Commit(w)
    /\ last' = Traced(Call("loseConnection", w.input, i, NoData, sc[i].state, w.err), w)
    /\ UNCHANGED <<dispatched, epvars>>

\* an endpoint binds a freshly built protocol: sc._set_protocol(p)
SetProtocol(i) ==
    LET w0 == buildProtocol(World, 1, i)
        w == _set_protocol(w0, i, NewProto(World)) IN
    /\ Commit(w)
    /\ last' = Traced(Call("_set_protocol", w.input, i, NoData, sc[i].state, w.err), w)
    /\ UNCHANGED <<dispatched, epvars>>

(***************************************************************************)
(* SubSpec: one subchannel driven through its own interface.               *)
(***************************************************************************)
\* the endpoints after construction: guards unused, observers unsettled,
\* no factory, nothing queued
EPInit ==
    /\ once = [e \in {"control", "listener"} |-> FALSE]
    /\ wait = [e \in {"control", "connector", "listener"} |->
                  [result |-> [kind |-> "NoResult", value |-> ""], observers |-> <<>>]]
    /\ eq = <<>>
    /\ calls = [e \in {"control", "connector", "listener"} |-> <<>>]
    /\ factory = None
    /\ pending_opens = <<>>
    /\ next_scid = 1

SubInit ==
    /\ sc = (5 :> NewSubChannel)
    /\ mgr = <<>>
    /\ protos = <<>>
    /\ dispatched = (5 :> <<>>)
    /\ last = Call("init", "none", None, NoData, "", "none")
    /\ EPInit

SubNext ==
    \/ \E i \in DOMAIN sc, d \in RemotePayloads :
          Len(dispatched[i]) < MaxData /\ RemoteData(i, d)
    \/ \E i \in DOMAIN sc : RemoteClose(i)
    \/ \E i \in DOMAIN sc, d \in WritePayloads :
          Len(SendDatas(i)) < MaxWrites /\ Write(i, d)
    \/ \E i \in DOMAIN sc : LoseConnection(i)
    \/ \E i \in DOMAIN sc : Len(protos) < MaxProtos /\ SetProtocol(i)

SubSpec == SubInit /\ [][SubNext]_vars

(***************************************************************************)
(* FlowSpec: two subchannels of one manager, with the flow-control calls   *)
(* of the application (IConsumer) and of the consumer (IProducer).  Both   *)
(* subchannels take flow-control calls and remote data; subchannel 5 is    *)
(* also attached and closed, subchannel 7 stays open and unattached.       *)
(***************************************************************************)
MaxFlow == 1
MaxFlowData == 1

Producers == {"producer"}

FlowCalls ==
    SelectSeq(mgr, LAMBDA c : c.call \in {"subchannel_stopProducing",
                                          "subchannel_pauseProducing",
                                          "subchannel_resumeProducing",
                                          "subchannel_registerProducer",
                                          "subchannel_unregisterProducer"})

FlowDone(c, i, args, w) ==
    /\ Commit(w)
    /\ last' = Traced(Call(c, w.input, i, args, sc[i].state, w.err), w)
    /\ UNCHANGED <<dispatched, epvars>>

StopProducing(i) == FlowDone("stopProducing", i, NoData, stopProducing(World, i))

PauseProducing(i) == FlowDone("pauseProducing", i, NoData, pauseProducing(World, i))

ResumeProducing(i) == FlowDone("resumeProducing", i, NoData, resumeProducing(World, i))

RegisterProducer(i, producer, streaming) ==
    FlowDone("registerProducer", i, ProducerArgs(producer, streaming),
             registerProducer(World, i, producer, streaming))

UnregisterProducer(i) ==
    FlowDone("unregisterProducer", i, NoData, unregisterProducer(World, i))

FlowInit ==
    /\ sc = (5 :> NewSubChannel) @@ (7 :> NewSubChannel)
    /\ mgr = <<>>
    /\ protos = <<>>
    /\ dispatched = (5 :> <<>>) @@ (7 :> <<>>)
    /\ last = Call("init", "none", None, NoData, "", "none")
    /\ EPInit

FlowNext ==
    \/ \E i \in DOMAIN sc :
          /\ Len(dispatched[5]) + Len(dispatched[7]) < MaxFlowData
          /\ RemoteData(i, Payload("AB", "bytes", Big(2)))
    \/ \E i \in {5} : sc[i].state # "closed" /\ RemoteClose(i)
    \/ \E i \in {5} : sc[i].state = "open" /\ LoseConnection(i)
    \/ \E i \in {5} : sc[i].protocol = None /\ SetProtocol(i)
    \/ \E i \in DOMAIN sc : Len(FlowCalls) < MaxFlow /\ StopProducing(i)
    \/ \E i \in DOMAIN sc : Len(FlowCalls) < MaxFlow /\ PauseProducing(i)
    \/ \E i \in DOMAIN sc : Len(FlowCalls) < MaxFlow /\ ResumeProducing(i)
    \/ \E i \in DOMAIN sc, producer \in Producers, streaming \in BOOLEAN :
          Len(FlowCalls) < MaxFlow /\ RegisterProducer(i, producer, streaming)
    \/ \E i \in DOMAIN sc : Len(FlowCalls) < MaxFlow /\ UnregisterProducer(i)

FlowSpec == FlowInit /\ [][FlowNext]_vars

(***************************************************************************)
(* The one-shot readiness observer and the eventual queue that runs its    *)
(* waiters: settle-once, waiters registered before or after settlement     *)
(* are each scheduled exactly once with the one outcome, in FIFO order.    *)
(***************************************************************************)
Endpoints == {"control", "connector", "listener"}

Failures == {"f1", "f2"}

NoResult == [kind |-> "NoResult", value |-> ""]

Fired == [kind |-> "fired", value |-> "None"]

Failed(f) == [kind |-> "error", value |-> f]

NewObserver == [result |-> NoResult, observers |-> <<>>]

\* o: the endpoints' observers, q: the eventual queue
_maybe_call_observers(o, q, e) ==
    IF o[e].result = NoResult THEN [wait |-> o, eq |-> q]
    ELSE [wait |-> [o EXCEPT ![e].observers = <<>>],
          eq |-> q \o [k \in 1..Len(o[e].observers) |->
                          [call |-> o[e].observers[k], outcome |-> o[e].result]]]

when_fired(o, q, e, id) ==
    _maybe_call_observers([o EXCEPT ![e].observers = Append(@, id)], q, e)

fire(o, q, e, result) ==
    _maybe_call_observers([o EXCEPT ![e].result = result], q, e)

error(o, q, e, f) ==
    _maybe_call_observers([o EXCEPT ![e].result = Failed(f)], q, e)

_main_channel_ready(o, q, e) == fire(o, q, e, Fired)

_main_channel_failed(o, q, e, f) == error(o, q, e, f)

(***************************************************************************)
(* Endpoint code.                                                          *)
(***************************************************************************)
\* Once.__call__ on a guard whose _called is `called`: raises or sets it.
OnceNeverRaises(called) == [err |-> "none", called |-> TRUE]

Once(called) ==
    IF called THEN [err |-> "SingleUseEndpointError", called |-> called]
    ELSE [err |-> "none", called |-> TRUE]

\* the protocol factory passed to the k-th call on endpoint e (distinct objects)
FactoryOf(e, k) ==
    (CASE e = "control" -> 100 [] e = "connector" -> 200 [] e = "listener" -> 300) + k

\* a connect()/listen() invocation: suspended at the yield, returned or failed
NewCall(f, st, e) == [factory |-> f, status |-> st, value |-> None, err |-> e]

\* yield self._wait_for_main_channel.when_fired(): a failure is raised into
\* the suspended call, a result lets it go on
AfterYieldSwallows(w, outcome) == w

AfterYield(w, outcome) ==
    IF outcome.kind = "error" THEN Raise(w, outcome.value) ELSE w

\* ControlEndpoint.connect after the yield
ControlConnected(w, f) ==
    LET w1 == buildProtocol(w, f, 0)
        p == NewProto(w)
        w2 == _set_protocol(w1, 0, p)
    IN  IF w2.err # "none" THEN w2 ELSE makeConnection(w2, p, 0)

\* SubchannelConnectorEndpoint.connect after the yield; scid is what
\* manager.allocate_subchannel_id() returns
ConnectorConnectedOpensTwice(w, f, scid) ==
    LET w1 == MgrCall(w, "allocate_subchannel_id", scid, NoData)
        w2 == MgrCall(MgrCall(w1, "send_open", scid, NoData), "send_open", scid, NoData)
        w3 == [w2 EXCEPT !.sc = (scid :> NewSubChannel) @@ @]
        w4 == MgrCall(w3, "subchannel_local_open", scid, NoData)
        w5 == buildProtocol(w4, f, scid)
        p == NewProto(w4)
        w6 == _set_protocol(w5, scid, p)
    IN  IF w6.err # "none" THEN w6 ELSE makeConnection(w6, p, scid)

ConnectorConnected(w, f, scid) ==
    LET w1 == MgrCall(w, "allocate_subchannel_id", scid, NoData)
        w2 == MgrCall(w1, "send_open", scid, NoData)
        w3 == [w2 EXCEPT !.sc = (scid :> NewSubChannel) @@ @]
        w4 == MgrCall(w3, "subchannel_local_open", scid, NoData)
        w5 == buildProtocol(w4, f, scid)
        p == NewProto(w4)
        w6 == _set_protocol(w5, scid, p)
    IN  IF w6.err # "none" THEN w6 ELSE makeConnection(w6, p, scid)

\* SubchannelListenerEndpoint._connect
_connect(w, f, t) ==
    LET w1 == buildProtocol(w, f, t)
        p == NewProto(w)
        w2 == _set_protocol(w1, t, p)
    IN  IF w2.err # "none" THEN w2 ELSE makeConnection(w2, p, t)

\* while self._pending_opens: popleft, _connect
RECURSIVE Drain(_, _, _)
DrainNewestFirst(w, f, opens) ==
    IF opens = <<>> \/ w.err # "none" THEN [w |-> w, opens |-> opens]
    ELSE Drain(_connect(w, f, opens[Len(opens)]), f, SubSeq(opens, 1, Len(opens) - 1))

Drain(w, f, opens) ==
    IF opens = <<>> \/ w.err # "none" THEN [w |-> w, opens |-> opens]
    ELSE Drain(_connect(w, f, Head(opens)), f, Tail(opens))

\* SubchannelListenerEndpoint._got_open: the world and the queue afterwards
_got_open_always_queues(w, fac, opens, t) ==
    [w |-> w, opens |-> Append(opens, t)]

_got_open_never_queues(w, fac, opens, t) ==
    [w |-> _connect(w, fac, t), opens |-> opens]

_got_open(w, fac, opens, t) ==
    IF fac # None THEN [w |-> _connect(w, fac, t), opens |-> opens]
    ELSE [w |-> w, opens |-> Append(opens, t)]

(***************************************************************************)
(* Actions of the endpoints.                                               *)
(***************************************************************************)
EPCall == Call("endpoint", "none", None, NoData, "", "none")

NewDispatched(s) == [i \in DOMAIN s |-> IF i \in DOMAIN dispatched THEN dispatched[i] ELSE <<>>]

\* a call that got past its guard suspends on when_fired()
Suspend(e, f) ==
    LET r == when_fired(wait, eq, e, <<e, Len(calls[e]) + 1>>) IN
    /\ calls' = [calls EXCEPT ![e] = Append(@, NewCall(f, "waiting", "none"))]
    /\ wait' = r.wait
    /\ eq' = r.eq

\* ControlEndpoint.connect / SubchannelListenerEndpoint.listen up to the yield
GuardedCall(e) ==
    LET f == FactoryOf(e, Len(calls[e]) + 1)
        g == Once(once[e]) IN
    /\ once' = [once EXCEPT ![e] = g.called]
    /\ IF g.err # "none"
       THEN /\ calls' = [calls EXCEPT ![e] = Append(@, NewCall(f, "failed", g.err))]
            /\ UNCHANGED <<wait, eq>>
       ELSE Suspend(e, f)
    /\ last' = EPCall
    /\ UNCHANGED <<sc, mgr, protos, dispatched, factory, pending_opens, next_scid>>

ControlConnect == GuardedCall("control")

Listen == GuardedCall("listener")

\* SubchannelConnectorEndpoint.connect up to the yield
ConnectorConnect ==
    /\ Suspend("connector", FactoryOf("connector", Len(calls["connector"]) + 1))
    /\ last' = EPCall
    /\ UNCHANGED <<sc, mgr, protos, dispatched, once, factory, pending_opens, next_scid>>

\* The manager resolves the readiness signal of the connection: it tells
\* the control, connector and listener endpoints in turn.
MainChannelReady ==
    LET r1 == _main_channel_ready(wait, eq, "control")
        r2 == _main_channel_ready(r1.wait, r1.eq, "connector")
        r3 == _main_channel_ready(r2.wait, r2.eq, "listener") IN
    /\ \A e \in Endpoints : wait[e].result = NoResult
    /\ wait' = r3.wait /\ eq' = r3.eq
    /\ last' = EPCall
    /\ UNCHANGED <<sc, mgr, protos, dispatched, once, calls, factory, pending_opens,
                   next_scid>>

MainChannelFailed(f) ==
    LET r1 == _main_channel_failed(wait, eq, "control", f)
        r2 == _main_channel_failed(r1.wait, r1.eq, "connector", f)
        r3 == _main_channel_failed(r2.wait, r2.eq, "listener", f) IN
    /\ \A e \in Endpoints : wait[e].result = NoResult
    /\ wait' = r3.wait /\ eq' = r3.eq
    /\ last' = EPCall
    /\ UNCHANGED <<sc, mgr, protos, dispatched, once, calls, factory, pending_opens,
                   next_scid>>

Finish(id, w, v) ==
    calls' = [calls EXCEPT ![id[1]][id[2]] =
                 IF w.err # "none" THEN [@ EXCEPT !.status = "failed", !.err = w.err]
                 ELSE [@ EXCEPT !.status = "returned", !.value = v]]

\* the eventual queue runs its oldest entry: the suspended call resumes
RunEventual ==
    /\ eq # <<>>
    /\ LET id == Head(eq).call
           e == id[1]
           f == calls[e][id[2]].factory
           w0 == AfterYield(World, Head(eq).outcome)
       IN  /\ eq' = Tail(eq)
           /\ last' = EPCall
           /\ UNCHANGED <<once, wait>>
           /\ IF w0.err # "none"
              THEN /\ Finish(id, w0, None)
                   /\ UNCHANGED <<sc, mgr, protos, dispatched, factory, pending_opens,
                                  next_scid>>
              ELSE CASE e = "control" ->
                        LET w == ControlConnected(w0, f) IN
                        /\ Commit(w)
                        /\ Finish(id, w, NewProto(w0))
                        /\ UNCHANGED <<dispatched, factory, pending_opens, next_scid>>
                     [] e = "connector" ->
                        LET w == ConnectorConnected(w0, f, next_scid) IN
                        /\ Commit(w)
                        /\ dispatched' = NewDispatched(w.sc)
                        /\ next_scid' = next_scid + 2
                        /\ Finish(id, w, NewProto(w0))
                        /\ UNCHANGED <<factory, pending_opens>>
                     [] e = "listener" ->
                        LET r == Drain(w0, f, pending_opens) IN
                        /\ factory' = f
                        /\ Commit(r.w)
                        /\ pending_opens' = r.opens
                        /\ Finish(id, r.w, 0)
                        /\ UNCHANGED <<dispatched, next_scid>>

\* the manager hands an incoming subchannel (peer-chosen id t) to the listener
IncomingIds == {i \in DOMAIN sc : i > 0 /\ i % 2 = 0}

GotOpen ==
    LET t == 2 * (Cardinality(IncomingIds) + 1)
        w0 == [World EXCEPT !.sc = (t :> NewSubChannel) @@ @]
        r == _got_open(w0, factory, pending_opens, t) IN
    /\ Commit(r.w)
    /\ dispatched' = NewDispatched(r.w.sc)
    /\ pending_opens' = r.opens
    /\ last' = Call("_got_open", "none", t, NoData, "", r.w.err)
    /\ UNCHANGED <<once, wait, eq, calls, factory, next_scid>>

(***************************************************************************)
(* Specifications of the endpoints.  Every one starts from the endpoints   *)
(* of a fresh connection and subchannel zero.                              *)
(***************************************************************************)
MaxCalls == 2
MaxConnectsEP == 1
MaxConnects == 3
MaxListens == 2
MaxOpens == 3
MaxOpensEP == 1
MaxInbound == 1
MaxInboundC == 2
MaxInboundL == 2

\* inbound events dispatched so far: remote closes and remote data
RECURSIVE TotalLen(_, _)
TotalLen(fn, S) ==
    IF S = {} THEN 0
    ELSE LET i == CHOOSE x \in S : TRUE IN Len(fn[i]) + TotalLen(fn, S \ {i})

Inbound == Len(SelectSeq(mgr, LAMBDA c : c.call = "subchannel_closed")) +
           TotalLen(dispatched, DOMAIN dispatched)

EPSpecInit ==
    /\ sc = (0 :> NewSubChannel)
    /\ mgr = <<>>
    /\ protos = <<>>
    /\ dispatched = (0 :> <<>>)
    /\ last = Call("init", "none", None, NoData, "", "none")
    /\ EPInit

\* EPSpec: the three endpoints together, with inbound traffic for the
\* subchannels that have no consumer yet.
EPNext ==
    \/ Len(calls["control"]) < MaxCalls /\ ControlConnect
    \/ Len(calls["connector"]) < MaxConnectsEP /\ ConnectorConnect
    \/ Len(calls["listener"]) < MaxCalls /\ Listen
    \/ MainChannelReady
    \/ \E f \in Failures : MainChannelFailed(f)
    \/ RunEventual
    \/ Cardinality(IncomingIds) < MaxOpensEP /\ GotOpen
    \/ \E i \in DOMAIN sc, d \in RemotePayloads :
          /\ Inbound < MaxInbound /\ sc[i].state # "closed" /\ sc[i].protocol = None
          /\ RemoteData(i, d)
    \/ \E i \in DOMAIN sc :
          /\ Inbound < MaxInbound /\ sc[i].state # "closed" /\ sc[i].protocol = None
          /\ RemoteClose(i)

EPSpec == EPSpecInit /\ [][EPNext]_vars

\* ConnectorSpec: the connector endpoint, and inbound traffic for the
\* subchannels it opened.
ConnectorNext ==
    \/ Len(calls["connector"]) < MaxConnects /\ ConnectorConnect
    \/ MainChannelReady
    \/ \E f \in Failures : MainChannelFailed(f)
    \/ RunEventual
    \/ \E i \in DOMAIN sc \ {0}, d \in RemotePayloads :
          Inbound < MaxInboundC /\ sc[i].state # "closed" /\ RemoteData(i, d)
    \/ \E i \in DOMAIN sc \ {0} :
          Inbound < MaxInboundC /\ sc[i].state # "closed" /\ RemoteClose(i)

ConnectorSpec == EPSpecInit /\ [][ConnectorNext]_vars

\* ListenerSpec: the listener endpoint and the incoming subchannels, with
\* inbound traffic for those that have no consumer yet.
ListenerNext ==
    \/ Len(calls["listener"]) < MaxListens /\ Listen
    \/ MainChannelReady
    \/ \E f \in Failures : MainChannelFailed(f)
    \/ RunEventual
    \/ Cardinality(IncomingIds) < MaxOpens /\ GotOpen
    \/ \E i \in DOMAIN sc \ {0}, d \in RemotePayloads :
          /\ Inbound < MaxInboundL /\ sc[i].state # "closed" /\ sc[i].protocol = None
          /\ RemoteData(i, d)
    \/ \E i \in DOMAIN sc \ {0} :
          /\ Inbound < MaxInboundL /\ sc[i].state # "closed" /\ sc[i].protocol = None
          /\ RemoteClose(i)

ListenerSpec == EPSpecInit /\ [][ListenerNext]_vars

\* ReadySpec: the calls on the three endpoints and the readiness signal, no
\* traffic.  The eventual queue is run by the reactor: an entry that is
\* queued is eventually run.
MaxCallsR == 2

ReadyNext ==
    \/ Len(calls["control"]) < MaxCallsR /\ ControlConnect
    \/ Len(calls["connector"]) < MaxCallsR /\ ConnectorConnect
    \/ Len(calls["listener"]) < MaxCallsR /\ Listen
    \/ MainChannelReady
    \/ \E f \in Failures : MainChannelFailed(f)
    \/ RunEventual

ReadySpec == EPSpecInit /\ [][ReadyNext]_vars /\ WF_vars(RunEventual)

(***************************************************************************)
(* Vocabulary of the properties.                                           *)
(***************************************************************************)
\* what a protocol was given by its transport, connectionMade left out
Delivered(p) == SelectSeq(protos[p].log, LAMBDA e : e.ev # "connectionMade")

DeliveredAfter(p) == SelectSeq(protos'[p].log, LAMBDA e : e.ev # "connectionMade")

DataEvents(datas) == [k \in 1..Len(datas) |-> Event("dataReceived", datas[k], "")]

DataOf(log) ==
    LET ds == SelectSeq(log, LAMBDA e : e.ev = "dataReceived")
    IN  [k \in 1..Len(ds) |-> ds[k].data]

Lost(log) == SelectSeq(log, LAMBDA e : e.ev = "connectionLost")

\* the step just taken was call c on subchannel i
Did(c, i) == last'.call = c /\ last'.scid = i

\* the step just taken fed automaton input inp to subchannel i
Fed(inp, i) == last'.input = inp /\ last'.scid = i

Untouched == sc' = sc /\ mgr' = mgr /\ protos' = protos /\ dispatched' = dispatched

(***************************************************************************)
(* C1. While a subchannel has no consumer, the pending queue holds exactly *)
(* the remote data accepted so far (in OPEN or CLOSING), in arrival order, *)
(* and the pending close is recorded exactly when the remote close has     *)
(* happened.  The step in which _set_protocol binds a consumer gives it    *)
(* dataReceived for each buffered payload in that order, then              *)
(* connectionLost if and only if a close was pending, and leaves the       *)
(* pending queue empty.                                                    *)
(***************************************************************************)
C1_Buffered ==
    \A i \in DOMAIN sc :
        sc[i].protocol = None =>
            /\ sc[i].pending_dataReceived = dispatched[i]
            /\ sc[i].pending_connectionLost[1] <=> (sc[i].state = "closed")

C1_Attach ==
    \A i \in DOMAIN sc :
        (sc[i].protocol = None /\ sc'[i].protocol # None) =>
            /\ DeliveredAfter(sc'[i].protocol) =
                  DataEvents(sc[i].pending_dataReceived) \o
                  (IF sc[i].pending_connectionLost[1]
                   THEN <<Event("connectionLost", NoData, "ConnectionDone")>>
                   ELSE <<>>)
            /\ sc'[i].pending_dataReceived = <<>>

C1_BufferThenDeliver == [](C1_Buffered) /\ [][C1_Attach]_vars

C1_Witness ==
    \E i \in DOMAIN sc :
        /\ last.call = "_set_protocol" /\ last.scid = i /\ last.err = "none"
        /\ last.from = "closed"
        /\ sc[i].protocol # None
        /\ Len(dispatched[i]) >= 2 /\ dispatched[i][1] # dispatched[i][2]
        /\ Len(Delivered(sc[i].protocol)) = Len(dispatched[i]) + 1

(***************************************************************************)
(* C2. For every subchannel, whatever the interleaving of remote data,     *)
(* remote close, local close and the attachment: the payloads handed to    *)
(* the consumer followed by those still buffered are exactly the remote    *)
(* data dispatched to the live (OPEN or CLOSING) subchannel, in order, so  *)
(* once a consumer is bound it has seen each payload exactly once;         *)
(* connectionLost is seen at most once and nothing follows it.  A dispatch *)
(* to a CLOSED subchannel is outside the manager's contract and is refused *)
(* (C5).                                                                   *)
(***************************************************************************)
C2_OrderedExactlyOnce ==
    \A i \in DOMAIN sc :
        LET p == sc[i].protocol
            log == IF p = None THEN <<>> ELSE Delivered(p)
        IN  /\ DataOf(log) \o sc[i].pending_dataReceived = dispatched[i]
            /\ p # None => sc[i].pending_dataReceived = <<>>
            /\ Len(Lost(log)) <= 1
            /\ Len(Lost(log)) = 1 => log[Len(log)].ev = "connectionLost"
            /\ \A q \in 1..Len(protos) :
                  q # p /\ protos[q].addr = i => Delivered(q) = <<>>

C2_Witness ==
    \E i \in DOMAIN sc :
        /\ sc[i].protocol # None
        /\ last.call = "remote_close" /\ last.from = "closing" /\ last.err = "none"
        /\ Len(dispatched[i]) >= 2 /\ dispatched[i][1] # dispatched[i][2]
        /\ Len(Lost(Delivered(sc[i].protocol))) = 1

(***************************************************************************)
(* C3. A local_data or local_close input fed to a subchannel in CLOSING    *)
(* raises AlreadyClosedError: the state stays CLOSING and the manager      *)
(* receives neither send_data nor send_close (nothing at all changes).     *)
(***************************************************************************)
C3_ClosingRejectsLocal ==
    [][\A i \in DOMAIN sc :
          (sc[i].state = "closing" /\ (Fed("local_data", i) \/ Fed("local_close", i))) =>
              /\ last'.err = "AlreadyClosedError"
              /\ sc'[i].state = "closing"
              /\ Untouched]_vars

C3_Witness ==
    /\ last.from = "closing" /\ last.err = "AlreadyClosedError"
    /\ last.input \in {"local_data", "local_close"}

(***************************************************************************)
(* C4. A write or loseConnection on a subchannel in CLOSED fails with      *)
(* AlreadyClosedError, as in CLOSING, and the manager receives neither     *)
(* send_data nor send_close.                                               *)
(***************************************************************************)
C4_ClosedRejectsLocal ==
    [][\A i \in DOMAIN sc :
          (sc[i].state = "closed" /\ (Fed("local_data", i) \/ Fed("local_close", i))) =>
              /\ last'.err = "AlreadyClosedError"
              /\ mgr' = mgr]_vars

(***************************************************************************)
(* C5. A remote_data or remote_close input dispatched to a subchannel in   *)
(* CLOSED is refused: nothing is delivered to the consumer, nothing is     *)
(* appended to the pending queue, the manager receives no call and the     *)
(* state remains CLOSED.                                                   *)
(***************************************************************************)
C5_ClosedRefusesRemote ==
    [][\A i \in DOMAIN sc :
          (sc[i].state = "closed" /\ (Did("remote_data", i) \/ Did("remote_close", i))) =>
              /\ last'.err = "NoTransition"
              /\ sc'[i].state = "closed"
              /\ Untouched]_vars

C5_Witness ==
    /\ last.from = "closed" /\ last.err = "NoTransition"
    /\ last.call \in {"remote_data", "remote_close"}

(***************************************************************************)
(* Vocabulary of the endpoint properties.                                  *)
(***************************************************************************)
EqIds == {eq[k].call : k \in 1..Len(eq)}

ObsIds(e) == {wait[e].observers[k] : k \in 1..Len(wait[e].observers)}

Pending(e, k) == <<e, k>> \in EqIds \cup ObsIds(e)

FactoriesOf(e) == {FactoryOf(e, k) : k \in 1..Len(calls[e])}

BuiltBy(fs) == {p \in 1..Len(protos) : protos[p].factory \in fs}

BuiltFor(i) == {p \in 1..Len(protos) : protos[p].addr = i}

\* what the connector endpoint asked of the manager, in order
ConnectorCalls ==
    SelectSeq(mgr, LAMBDA c : c.call \in {"allocate_subchannel_id", "send_open",
                                          "subchannel_local_open"})

Returned(e) == {k \in 1..Len(calls[e]) : calls[e][k].status = "returned"}

MadeCount(p) == Len(SelectSeq(protos[p].log, LAMBDA x : x.ev = "connectionMade"))

(***************************************************************************)
(* C6. On the control endpoint and on the listener endpoint every call     *)
(* after the first fails with SingleUseEndpointError, before or after      *)
(* readiness settles; it builds no protocol, registers no factory and is   *)
(* never scheduled, and the step that makes it changes nothing of the      *)
(* first call or of anything else.  The first call waits until readiness   *)
(* settles and then completes with that outcome; on success the control    *)
(* endpoint has built exactly one protocol, bound to subchannel zero, and  *)
(* the listener has registered the first call's factory.                   *)
(***************************************************************************)
C6_SingleUse ==
    \A e \in {"control", "listener"} :
        /\ once[e] <=> calls[e] # <<>>
        /\ \A k \in 2..Len(calls[e]) :
              /\ calls[e][k] = NewCall(FactoryOf(e, k), "failed", "SingleUseEndpointError")
              /\ ~Pending(e, k)
              /\ BuiltBy({FactoryOf(e, k)}) = {}
              /\ factory # FactoryOf(e, k)
        /\ calls[e] # <<>> =>
              LET c == calls[e][1] IN
              /\ c.factory = FactoryOf(e, 1)
              /\ Pending(e, 1) <=> c.status = "waiting"
              /\ wait[e].result = NoResult => c.status = "waiting"
              /\ (~Pending(e, 1) /\ wait[e].result = Fired) => c.status = "returned"
              /\ (~Pending(e, 1) /\ wait[e].result.kind = "error") =>
                    c.status = "failed" /\ c.err = wait[e].result.value
              /\ e = "control" =>
                    IF c.status = "returned"
                    THEN /\ BuiltBy(FactoriesOf(e)) = {c.value}
                         /\ protos[c.value].factory = c.factory
                         /\ sc[0].protocol = c.value
                         /\ protos[c.value].transport = 0
                    ELSE BuiltBy(FactoriesOf(e)) = {} /\ sc[0].protocol = None
              /\ e = "listener" =>
                    IF c.status = "returned" THEN factory = c.factory /\ c.value = 0
                    ELSE factory = None /\ BuiltBy(FactoriesOf(e)) = {}

C6_SecondCallInert ==
    \A e \in {"control", "listener"} :
        (calls[e] # <<>> /\ Len(calls'[e]) > Len(calls[e])) =>
            /\ calls'[e] = Append(calls[e], NewCall(FactoryOf(e, Len(calls[e]) + 1),
                                                     "failed", "SingleUseEndpointError"))
            /\ \A x \in Endpoints \ {e} : calls'[x] = calls[x]
            /\ UNCHANGED <<sc, mgr, protos, once, wait, eq, factory, pending_opens>>

C6_SingleUseEndpoints == [](C6_SingleUse) /\ [][C6_SecondCallInert]_vars

C6_Witness ==
    /\ \A e \in {"control", "listener"} :
          /\ Len(calls[e]) >= 2
          /\ calls[e][1].status = "returned"
          /\ calls[e][2].err = "SingleUseEndpointError"
    /\ sc[0].protocol = calls["control"][1].value
    /\ factory = FactoryOf("listener", 1)

(***************************************************************************)
(* C7. The connector endpoint asks nothing of the manager while readiness  *)
(* is unsettled (or failed), however many connect calls wait.  Each        *)
(* connect call that has returned accounts for exactly one                 *)
(* allocate_subchannel_id, then one send_open with that id, then one       *)
(* subchannel_local_open with that id, and no other such call exists; the  *)
(* protocol it returned is bound to that subchannel and its                *)
(* connection-established callback was the first thing it saw.             *)
(***************************************************************************)
C7_ConnectorOpens ==
    LET cc == ConnectorCalls
        rets == Returned("connector")
        R == Cardinality(rets)
        scidOf(k) == protos[calls["connector"][k].value].transport
    IN  /\ wait["connector"].result # Fired => cc = <<>> /\ rets = {}
        /\ Len(cc) = 3 * R
        /\ \A j \in 1..R :
              /\ cc[3 * j - 2].call = "allocate_subchannel_id"
              /\ cc[3 * j - 1].call = "send_open"
              /\ cc[3 * j].call = "subchannel_local_open"
              /\ cc[3 * j - 1].scid = cc[3 * j - 2].scid
              /\ cc[3 * j].scid = cc[3 * j - 2].scid
              /\ \A j2 \in 1..R : j2 # j => cc[3 * j2].scid # cc[3 * j].scid
        /\ \A k \in rets :
              LET p == calls["connector"][k].value IN
              /\ p \in 1..Len(protos)
              /\ BuiltBy({FactoryOf("connector", k)}) = {p}
              /\ scidOf(k) \in {cc[3 * j].scid : j \in 1..R}
              /\ protos[p].addr = scidOf(k)
              /\ sc[scidOf(k)].protocol = p
              /\ protos[p].log # <<>> /\ Head(protos[p].log).ev = "connectionMade"
              /\ MadeCount(p) = 1
              /\ \A k2 \in rets : k2 # k => scidOf(k2) # scidOf(k)
        /\ \A k \in 1..Len(calls["connector"]) :
              calls["connector"][k].status # "returned" =>
                  BuiltBy({FactoryOf("connector", k)}) = {}

C7_Witness ==
    /\ Cardinality(Returned("connector")) >= 2
    /\ Len(ConnectorCalls) >= 6
    /\ \E k \in 1..Len(calls["connector"]) : calls["connector"][k].status = "waiting"

(***************************************************************************)
(* C8. Until the listener has a factory, every incoming open is queued in  *)
(* arrival order and none is dropped or connected.  Once listen has        *)
(* completed, the queue is empty and every incoming subchannel, queued or  *)
(* later, has been connected exactly once (one protocol built from the     *)
(* factory, bound, connection established once), the protocols having been *)
(* built in the order the opens were received; an open received after that *)
(* is connected in the same step and never queued.                         *)
(***************************************************************************)
C8_ListenerQueue ==
    LET n == Cardinality(IncomingIds) IN
    /\ factory = None =>
          /\ pending_opens = [k \in 1..n |-> 2 * k]
          /\ \A i \in IncomingIds : sc[i].protocol = None /\ BuiltFor(i) = {}
    /\ factory # None =>
          /\ pending_opens = <<>>
          /\ \A i \in IncomingIds :
                /\ Cardinality(BuiltFor(i)) = 1
                /\ sc[i].protocol \in BuiltFor(i)
                /\ protos[sc[i].protocol].factory = factory
                /\ protos[sc[i].protocol].transport = i
                /\ MadeCount(sc[i].protocol) = 1
          /\ \A i, j \in IncomingIds : i < j => sc[i].protocol < sc[j].protocol

C8_Witness ==
    /\ last.call = "_got_open" /\ last.scid = 6 /\ last.err = "none"
    /\ factory # None /\ pending_opens = <<>>
    /\ sc[6].protocol # None
    /\ dispatched[2] # <<>> /\ dispatched[4] # <<>>

(***************************************************************************)
(* C9. Once readiness has settled with failure f, no call on that endpoint *)
(* ever returns: each is still scheduled with outcome f (exactly once) or  *)
(* has failed with f (a repeated control connect or listen having failed   *)
(* at its guard); nothing is built, no consumer is bound, the manager sees *)
(* no allocate_subchannel_id, send_open or subchannel_local_open, the      *)
(* listener's factory stays unregistered and its queue keeps every         *)
(* incoming open; a failed call is never scheduled again.                  *)
(***************************************************************************)
C9_FailurePropagates ==
    \A e \in Endpoints, f \in Failures :
        wait[e].result = Failed(f) =>
            /\ wait[e].observers = <<>>
            /\ \A k \in 1..Len(calls[e]) :
                  LET c == calls[e][k]
                      sched == {x \in 1..Len(eq) : eq[x].call = <<e, k>>}
                  IN  \/ /\ c.status = "waiting"
                         /\ Cardinality(sched) = 1
                         /\ \A x \in sched : eq[x].outcome = Failed(f)
                      \/ /\ c.status = "failed" /\ c.err = f /\ c.value = None
                         /\ sched = {}
                      \/ /\ c.status = "failed" /\ c.err = "SingleUseEndpointError"
                         /\ e # "connector" /\ k > 1 /\ sched = {}
            /\ BuiltBy(FactoriesOf(e)) = {}
            /\ e = "control" => sc[0].protocol = None
            /\ e = "connector" => ConnectorCalls = <<>> /\ next_scid = 1
            /\ e = "listener" =>
                  /\ factory = None
                  /\ \A i \in IncomingIds : sc[i].protocol = None
                  /\ Len(pending_opens) = Cardinality(IncomingIds)

C9_Witness ==
    /\ \A e \in Endpoints :
          /\ wait[e].result = Failed("f2")
          /\ calls[e] # <<>>
          /\ calls[e][1].status = "failed" /\ calls[e][1].err = "f2"
    /\ pending_opens # <<>>
    /\ eq = <<>>

(***************************************************************************)
(* C10. In OPEN, write of a bytes payload of exactly 2^32 - 1 - 9 - 16     *)
(* bytes succeeds and gives the manager exactly one send_data; write of    *)
(* one byte more fails validation before the automaton is reached: no      *)
(* send_data and the state unchanged.                                      *)
(***************************************************************************)
C10_FrameLengthBoundary ==
    [][\A i \in DOMAIN sc :
          (sc[i].state = "open" /\ Did("write", i) /\ last'.data.kind = "bytes") =>
              /\ last'.data.len = <<0, 65535, 65510>> =>
                    /\ last'.err = "none"
                    /\ mgr' = Append(mgr, [call |-> "send_data", scid |-> i,
                                           data |-> last'.data])
                    /\ sc' = sc
              /\ last'.data.len = <<0, 65535, 65511>> =>
                    /\ last'.err = "AssertionError"
                    /\ last'.input = "none"
                    /\ Untouched]_vars

C10_Witness ==
    /\ last.call = "write" /\ last.from = "open"
    /\ last.data.len = <<0, 65535, 65511>>
    /\ last.err = "AssertionError"
    /\ \E k \in 1..Len(mgr) :
          mgr[k].call = "send_data" /\ mgr[k].data.len = <<0, 65535, 65510>>

(***************************************************************************)
(* Vocabulary of the claims about the manager's call log.                  *)
(***************************************************************************)
ManagerCall(c, i) == [call |-> c, scid |-> i, data |-> NoData]

\* the calls named c the manager's log holds for subchannel i
CallsIn(log, c, i) == SelectSeq(log, LAMBDA x : x.call = c /\ x.scid = i)

\* the connectionLost events the protocols built for subchannel i have seen
LostIn(ps, i) ==
    {x \in (1..Len(ps)) \X (1..(MaxData + 2)) :
        /\ ps[x[1]].addr = i
        /\ x[2] <= Len(ps[x[1]].log)
        /\ ps[x[1]].log[x[2]].ev = "connectionLost"}

Rank(state) ==
    CASE state = "open" -> 0
      [] state = "closing" -> 1
      [] state = "closed" -> 2

(***************************************************************************)
(* C11. A subchannel has at most one bound consumer: once a consumer is    *)
(* bound it is never replaced, a later _set_protocol on that subchannel    *)
(* fails with an assertion error and changes nothing, and only the bound   *)
(* consumer of a subchannel has ever been delivered anything, so no        *)
(* payload reaches two consumers.                                          *)
(***************************************************************************)
C11_OneConsumer ==
    /\ [](\A p \in 1..Len(protos) :
             protos[p].log # <<>> => sc[protos[p].addr].protocol = p)
    /\ [][\A i \in DOMAIN sc :
             /\ sc[i].protocol # None => sc'[i].protocol = sc[i].protocol
             /\ (Did("_set_protocol", i) /\ sc[i].protocol # None) =>
                   /\ last'.err = "AssertionError"
                   /\ last'.trace = <<>>
                   /\ sc' = sc /\ mgr' = mgr
                   /\ \A p \in 1..Len(protos) : protos'[p] = protos[p]
                   /\ \A p \in (Len(protos) + 1)..Len(protos') :
                         protos'[p].log = <<>>]_vars

C11_Witness ==
    /\ last.call = "_set_protocol" /\ last.err = "AssertionError"
    /\ sc[5].protocol = 1
    /\ Len(protos) = 2
    /\ DataOf(protos[1].log) = dispatched[5]
    /\ Len(dispatched[5]) >= 2

C13_LocalClose ==
    /\ [](\A i \in DOMAIN sc :
             sc[i].state = "closing" =>
                 /\ CallsIn(mgr, "subchannel_closed", i) = <<>>
                 /\ ~sc[i].pending_connectionLost[1]
                 /\ LostIn(protos, i) = {})
    /\ [][\A i \in DOMAIN sc :
             /\ (Did("loseConnection", i) /\ sc[i].state = "open") =>
                   /\ last'.err = "none"
                   /\ last'.trace = <<"send_close">>
                   /\ mgr' = Append(mgr, ManagerCall("send_close", i))
                   /\ sc' = [sc EXCEPT ![i].state = "closing"]
                   /\ protos' = protos
             /\ (Did("remote_data", i) /\ sc[i].state = "closing") =>
                   /\ last'.err = "none"
                   /\ mgr' = mgr
                   /\ IF sc[i].protocol # None
                      THEN /\ protos' = [protos EXCEPT ![sc[i].protocol].log =
                                  Append(@, Event("dataReceived", last'.data, ""))]
                           /\ sc' = sc
                      ELSE /\ protos' = protos
                           /\ sc' = [sc EXCEPT ![i].pending_dataReceived =
                                                   Append(@, last'.data)]
             /\ sc'[i].pending_connectionLost # sc[i].pending_connectionLost =>
                   Did("remote_close", i)
             /\ LostIn(protos', i) # LostIn(protos, i) =>
                   \/ Did("remote_close", i)
                   \/ Did("_set_protocol", i) /\ sc[i].pending_connectionLost[1]]_vars

C13_Witness ==
    /\ last.call = "remote_data" /\ last.from = "closing" /\ last.err = "none"
    /\ sc[5].state = "closing"
    /\ sc[5].protocol # None
    /\ CallsIn(mgr, "send_close", 5) # <<>>
    /\ Len(DataOf(protos[sc[5].protocol].log)) >= 2

(***************************************************************************)
(* C14. subchannel_closed(id) is called exactly once per subchannel, in    *)
(* the step that enters CLOSED and in no other step: never by a local      *)
(* close, and also when no consumer is bound.                              *)
(***************************************************************************)
C14_ClosedOnce ==
    /\ [](\A i \in DOMAIN sc :
             Len(CallsIn(mgr, "subchannel_closed", i)) =
                 IF sc[i].state = "closed" THEN 1 ELSE 0)
    /\ [][\A i \in DOMAIN sc :
             /\ (CallsIn(mgr', "subchannel_closed", i) #
                     CallsIn(mgr, "subchannel_closed", i))
                   <=> (sc[i].state # "closed" /\ sc'[i].state = "closed")
             /\ Did("loseConnection", i) =>
                   CallsIn(mgr', "subchannel_closed", i) =
                       CallsIn(mgr, "subchannel_closed", i)]_vars

C14_Witness ==
    /\ sc[5].state = "closed"
    /\ sc[5].protocol = None
    /\ protos = <<>>
    /\ sc[5].pending_connectionLost[1]
    /\ Len(CallsIn(mgr, "subchannel_closed", 5)) = 1
    /\ last.call = "loseConnection"

(***************************************************************************)
(* C19. send_close(id) is emitted at most once per subchannel and exactly  *)
(* once by the time the subchannel is CLOSED: by the local close when the  *)
(* local side closes first, otherwise by the remote close accepted in      *)
(* OPEN.                                                                   *)
(***************************************************************************)
C19_SendCloseOnce ==
    /\ [](\A i \in DOMAIN sc :
             Len(CallsIn(mgr, "send_close", i)) =
                 IF sc[i].state = "open" THEN 0 ELSE 1)
    /\ [][\A i \in DOMAIN sc :
             CallsIn(mgr', "send_close", i) # CallsIn(mgr, "send_close", i) =>
                 /\ sc[i].state = "open"
                 /\ \/ Did("loseConnection", i) /\ sc'[i].state = "closing"
                    \/ Did("remote_close", i) /\ sc'[i].state = "closed"]_vars

C19_Witness ==
    /\ last.call = "remote_close" /\ last.from = "closing"
    /\ sc[5].state = "closed"
    /\ Len(CallsIn(mgr, "send_close", 5)) = 1

(***************************************************************************)
(* C20. No send_data for an id follows send_close for that id; a local     *)
(* write succeeds only in OPEN; the state only moves forward, OPEN to      *)
(* CLOSING to CLOSED, and never returns to OPEN.                           *)
(***************************************************************************)
C20_NoDataAfterClose ==
    /\ [](\A i \in DOMAIN sc : \A j, k \in 1..Len(mgr) :
             (j < k /\ mgr[j].call = "send_close" /\ mgr[j].scid = i) =>
                 ~(mgr[k].call = "send_data" /\ mgr[k].scid = i))
    /\ [][\A i \in DOMAIN sc :
             /\ Rank(sc'[i].state) >= Rank(sc[i].state)
             /\ (Did("write", i) /\ last'.err = "none") =>
                   sc[i].state = "open" /\ sc'[i].state = "open"
             /\ CallsIn(mgr', "send_data", i) # CallsIn(mgr, "send_data", i) =>
                   Did("write", i) /\ sc[i].state = "open"]_vars

C20_Witness ==
    /\ last.call = "write" /\ last.from = "closing"
    /\ last.err = "AlreadyClosedError"
    /\ \E j, k \in 1..Len(mgr) :
          j < k /\ mgr[j].call = "send_data" /\ mgr[k].call = "send_close"
    /\ CallsIn(mgr, "send_data", 5) # <<>>

(***************************************************************************)
(* C15. While readiness has not fired, listen having been called or not,   *)
(* every incoming open is still queued, in arrival order, and none is      *)
(* connected: no factory is registered, nothing is built, no consumer is   *)
(* bound.  An incoming subchannel is connected only once readiness has     *)
(* fired successfully.                                                     *)
(***************************************************************************)
C15_QueuedUntilReady ==
    LET n == Cardinality(IncomingIds)
        connected == {i \in IncomingIds : sc[i].protocol # None \/ BuiltFor(i) # {}}
    IN  /\ wait["listener"].result = NoResult =>
              /\ factory = None
              /\ pending_opens = [k \in 1..n |-> 2 * k]
              /\ connected = {}
        /\ connected # {} =>
              /\ wait["listener"].result = Fired
              /\ \E k \in 1..Len(calls["listener"]) :
                    calls["listener"][k].status = "returned"

C15_Witness ==
    /\ calls["listener"] # <<>>
    /\ calls["listener"][1].status = "waiting"
    /\ wait["listener"].result = NoResult
    /\ wait["listener"].observers # <<>>
    /\ last.call = "_got_open" /\ last.scid = 4
    /\ pending_opens = <<2, 4>>
    /\ dispatched[2] # <<>>

(***************************************************************************)
(* C18. For every protocol built by an endpoint, connectionMade comes      *)
(* before any dataReceived or connectionLost delivered to it, also when    *)
(* the subchannel held buffered data or a pending close when it was        *)
(* connected.                                                              *)
(***************************************************************************)
C18_ConnectionMadeFirst ==
    \A p \in 1..Len(protos) : \A k \in 1..Len(protos[p].log) :
        protos[p].log[k].ev \in {"dataReceived", "connectionLost"} =>
            \E j \in 1..(k - 1) : protos[p].log[j].ev = "connectionMade"

(***************************************************************************)
(* C16. Each flow-control call on a subchannel (stopProducing,             *)
(* pauseProducing, resumeProducing, registerProducer, unregisterProducer)  *)
(* makes exactly one manager call, the corresponding one, tagged with that *)
(* subchannel (and carrying the producer arguments), and changes nothing   *)
(* else: no state, consumer, pending queue or pending close of this or any *)
(* other subchannel, and no protocol.  A subchannel whose last             *)
(* pause/resume call was pauseProducing still delivers or buffers every    *)
(* remote data it accepts.  A step on one subchannel never changes another *)
(* subchannel.                                                             *)
(***************************************************************************)
ManagerName(c) ==
    CASE c = "stopProducing" -> "subchannel_stopProducing"
      [] c = "pauseProducing" -> "subchannel_pauseProducing"
      [] c = "resumeProducing" -> "subchannel_resumeProducing"
      [] c = "registerProducer" -> "subchannel_registerProducer"
      [] c = "unregisterProducer" -> "subchannel_unregisterProducer"

Paused(i) ==
    LET pr == SelectSeq(mgr, LAMBDA c : /\ c.scid = i
                                        /\ c.call \in {"subchannel_pauseProducing",
                                                       "subchannel_resumeProducing"})
    IN  pr # <<>> /\ pr[Len(pr)].call = "subchannel_pauseProducing"

C16_FlowControl ==
    [][\A i \in DOMAIN sc :
          /\ \A c \in {"stopProducing", "pauseProducing", "resumeProducing",
                       "registerProducer", "unregisterProducer"} :
                Did(c, i) =>
                    /\ last'.err = "none"
                    /\ last'.trace = <<ManagerName(c)>>
                    /\ mgr' = Append(mgr, [call |-> ManagerName(c), scid |-> i,
                                           data |-> last'.data])
                    /\ sc' = sc /\ protos' = protos /\ dispatched' = dispatched
          /\ (Did("remote_data", i) /\ Paused(i) /\ sc[i].state # "closed") =>
                /\ last'.err = "none"
                /\ dispatched'[i] = Append(dispatched[i], last'.data)
                /\ IF sc[i].protocol # None
                   THEN /\ protos' = [protos EXCEPT ![sc[i].protocol].log =
                               Append(@, Event("dataReceived", last'.data, ""))]
                        /\ sc' = sc
                   ELSE /\ protos' = protos
                        /\ sc' = [sc EXCEPT ![i].pending_dataReceived =
                                                Append(@, last'.data)]
          /\ last'.scid = i =>
                \A j \in DOMAIN sc \ {i} :
                    /\ sc'[j] = sc[j]
                    /\ dispatched'[j] = dispatched[j]
                    /\ \A c \in {mgr[k].call : k \in 1..Len(mgr)}
                               \cup {mgr'[k].call : k \in 1..Len(mgr')} :
                          CallsIn(mgr', c, j) = CallsIn(mgr, c, j)
                    /\ sc[j].protocol # None =>
                          protos'[sc[j].protocol] = protos[sc[j].protocol]]_vars

C16_Witness ==
    /\ last.call = "remote_data" /\ last.scid = 5 /\ last.err = "none"
    /\ Paused(5)
    /\ sc[5].protocol # None
    /\ DataOf(protos[sc[5].protocol].log) = dispatched[5]
    /\ dispatched[5] # <<>>
    /\ CallsIn(mgr, "subchannel_pauseProducing", 5) # <<>>
    /\ sc[7] = NewSubChannel

(***************************************************************************)
(* C17. The readiness signal of an endpoint settles at most once.  Every   *)
(* connect or listen call that got past its guard sees that one outcome,   *)
(* whether it was made before or after settlement: it returns only if      *)
(* readiness fired, fails with f only if readiness failed with f, and      *)
(* while it waits it is registered exactly once (unsettled) or scheduled   *)
(* exactly once with the outcome (settled).  With the eventual queue run   *)
(* fairly, once readiness has settled every such call completes; a call    *)
(* made after settlement is scheduled at once and needs no further         *)
(* readiness event.                                                        *)
(***************************************************************************)
C17_Readiness ==
    /\ [][\A e \in Endpoints :
             wait[e].result # NoResult => wait'[e] = wait[e]]_vars
    /\ [](\A e \in Endpoints : \A k \in 1..Len(calls[e]) :
             LET c == calls[e][k]
                 sched == {x \in 1..Len(eq) : eq[x].call = <<e, k>>}
                 reg == {x \in 1..Len(wait[e].observers) :
                            wait[e].observers[x] = <<e, k>>}
             IN  /\ c.status = "returned" => wait[e].result = Fired
                 /\ (c.status = "failed" /\ c.err # "SingleUseEndpointError") =>
                       wait[e].result = Failed(c.err)
                 /\ c.status # "waiting" => sched = {} /\ reg = {}
                 /\ (c.status = "waiting" /\ wait[e].result = NoResult) =>
                       Cardinality(reg) = 1 /\ sched = {}
                 /\ (c.status = "waiting" /\ wait[e].result # NoResult) =>
                       /\ reg = {} /\ Cardinality(sched) = 1
                       /\ \A x \in sched : eq[x].outcome = wait[e].result)
    /\ \A e \in Endpoints : \A k \in 1..MaxCallsR :
          (k <= Len(calls[e]) /\ wait[e].result # NoResult)
              ~> (k <= Len(calls[e]) /\ calls[e][k].status # "waiting")

C17_Witness ==
    /\ wait["control"].result = Fired
    /\ calls["connector"] # <<>> /\ calls["connector"][1].status = "returned"
    /\ Len(calls["control"]) = 1 /\ calls["control"][1].status = "waiting"
    /\ eq = <<[call |-> <<"control", 1>>, outcome |-> Fired]>>

====
